---------------------------- MODULE Spec2Model ----------------------------
(***************************************************************************)
(* A model of cordova-config (src/index.js): one Config object holding the *)
(* parsed config.xml tree, the mutation calls made on it, its construction *)
(* from the file and its writes to the file.                               *)
(*                                                                         *)
(* Strings are TLA+ strings; a character is a string of length one.        *)
(* A value that JavaScript leaves undefined (an omitted argument) is the   *)
(* empty string: every test the source makes on such a value is a          *)
(* truthiness test, which undefined and "" both fail.                      *)
(***************************************************************************)
EXTENDS Naturals, Sequences, FiniteSets, TLC

VARIABLES doc, pre, pre2, last, repeat, nCalls, handle, loadError, disk, inflight

vars == <<doc, pre, pre2, last, repeat, nCalls, handle, loadError, disk, inflight>>

(***************************************************************************)
(* Bounds of the model.                                                    *)
(***************************************************************************)
\* Number of calls made on one Config object.
MaxCalls == 2
\* Length of the strings handed to setVersion in SpecVersion.
MaxLen == 5

(***************************************************************************)
(* Strings.                                                                *)
(***************************************************************************)
CharAt(s, i) == SubSeq(s, i, i)

\* String.prototype.indexOf(p) === 0
StartsWith(s, p) == Len(p) <= Len(s) /\ SubSeq(s, 1, Len(p)) = p

EndsWith(s, p) == Len(p) <= Len(s) /\ SubSeq(s, Len(s) - Len(p) + 1, Len(s)) = p

Digit == {"0", "1", "2", "3", "4", "5", "6", "7", "8", "9"}

Lower == {"a", "b", "c", "d", "e", "f", "g", "h", "i", "j", "k", "l", "m",
          "n", "o", "p", "q", "r", "s", "t", "u", "v", "w", "x", "y", "z"}

Upper == {"A", "B", "C", "D", "E", "F", "G", "H", "I", "J", "K", "L", "M",
          "N", "O", "P", "Q", "R", "S", "T", "U", "V", "W", "X", "Y", "Z"}

AlNum == Digit \cup Lower \cup Upper

\* The characters the regular-expression atom . does not match.
LineTerminator == {"\n", "\r"}

(***************************************************************************)
(* Regular expressions, as RegExp evaluates them.  A pattern is a tree:    *)
(* Chr(S) a character class, AnyChar the atom ".", Lit(w) a literal word,  *)
(* Cat(<<..>>) a concatenation, Star, Plus, Opt and Rep02 ({0,2}) the      *)
(* quantifiers.  Ends(re, s, starts) is the set of positions at which a    *)
(* match of re that starts at one of starts can end.                       *)
(***************************************************************************)
Chr(S) == [t |-> "chr", set |-> S]

AnyChar == [t |-> "any"]

Lit(w) == [t |-> "lit", w |-> w]

Cat(parts) == [t |-> "cat", parts |-> parts]

Star(a) == [t |-> "star", a |-> a]

Plus(a) == Cat(<<a, Star(a)>>)

Opt(a) == [t |-> "opt", a |-> a]

Rep02(a) == Cat(<<Opt(a), Opt(a)>>)

RECURSIVE Ends(_, _, _)
RECURSIVE CatEnds(_, _, _, _)
RECURSIVE StarEnds(_, _, _)

Ends(re, s, starts) ==
    CASE re.t = "chr" ->
           {i + 1 : i \in {j \in starts : j <= Len(s) /\ CharAt(s, j) \in re.set}}
      [] re.t = "any" ->
           {i + 1 : i \in {j \in starts : j <= Len(s) /\ CharAt(s, j) \notin LineTerminator}}
      [] re.t = "lit" ->
           {i + Len(re.w) : i \in {j \in starts : j + Len(re.w) - 1 <= Len(s)
                                      /\ SubSeq(s, j, j + Len(re.w) - 1) = re.w}}
      [] re.t = "cat" -> CatEnds(re.parts, 1, s, starts)
      [] re.t = "star" -> StarEnds(re.a, s, starts)
      [] re.t = "opt" -> starts \cup Ends(re.a, s, starts)

CatEnds(parts, k, s, starts) ==
    IF k > Len(parts) THEN starts
    ELSE CatEnds(parts, k + 1, s, Ends(parts[k], s, starts))

StarEnds(a, s, acc) ==
    LET more == acc \cup Ends(a, s, acc)
    IN  IF more = acc THEN acc ELSE StarEnds(a, s, more)

\* RegExp.prototype.test for a pattern anchored by ^ and $.
RegexTest(re, s) == (Len(s) + 1) \in Ends(re, s, {1})

(***************************************************************************)
(* The tree (the elementtree contract the source relies on).  A node is    *)
(* [tag, attrib, text, children]; a node of the tree is named by its       *)
(* position, the sequence of child indices leading to it from the root.    *)
(***************************************************************************)
EmptyAttrib == [k \in {} |-> ""]

\* new et.Element(tag)
Element(tag) == [tag |-> tag, attrib |-> EmptyAttrib, text |-> "", children |-> <<>>]

\* element.attrib[key] = value / element.set(key, value)
SetAttr(attrib, key, value) == (key :> value) @@ attrib

\* The position no node has: what find returns as null.
Null == <<0>>

RECURSIVE NodeAt(_, _)
NodeAt(n, pos) ==
    IF pos = <<>> THEN n ELSE NodeAt(n.children[Head(pos)], Tail(pos))

RECURSIVE ReplaceAt(_, _, _)
ReplaceAt(n, pos, new) ==
    IF pos = <<>> THEN new
    ELSE [n EXCEPT !.children[Head(pos)] = ReplaceAt(@, Tail(pos), new)]

\* parent.append(child), parent the node at position pos
AppendAt(d, pos, child) ==
    ReplaceAt(d, pos, [NodeAt(d, pos) EXCEPT !.children = Append(@, child)])

RemoveIndex(seq, i) == SubSeq(seq, 1, i - 1) \o SubSeq(seq, i + 1, Len(seq))

\* parent.remove(child): child is the node at position pos, parent the node above it.
\* remove drops the children of parent that are that very node; a node that is
\* not a child of parent leaves parent unchanged.
RemoveAt(d, parentPos, pos) ==
    IF Len(pos) = Len(parentPos) + 1 /\ SubSeq(pos, 1, Len(parentPos)) = parentPos
    THEN ReplaceAt(d, parentPos,
                   [NodeAt(d, parentPos) EXCEPT !.children = RemoveIndex(@, pos[Len(pos)])])
    ELSE d

(***************************************************************************)
(* The path expressions of the tree contract: "." followed by steps        *)
(* separated by "/", a step being a tag (the children with that tag) or a  *)
(* predicate [@attr="value"] (the nodes selected so far whose attribute    *)
(* has that value).  A "/" inside a quoted value separates nothing.        *)
(***************************************************************************)
RECURSIVE SplitAcc(_, _, _, _, _, _)
SplitAcc(s, sep, i, cur, acc, quoted) ==
    IF i > Len(s) THEN Append(acc, cur)
    ELSE LET c == CharAt(s, i)
         IN  IF c = sep /\ ~quoted
             THEN SplitAcc(s, sep, i + 1, "", Append(acc, cur), quoted)
             ELSE SplitAcc(s, sep, i + 1, cur \o c, acc,
                           IF c = "\"" THEN ~quoted ELSE quoted)

\* The pieces of s between the occurrences of sep that are outside quotes.
Split(s, sep) == SplitAcc(s, sep, 1, "", <<>>, FALSE)

SplitPath(s) == Split(s, "/")

RECURSIVE FirstIndexOf(_, _, _)
FirstIndexOf(s, c, i) ==
    IF i > Len(s) THEN 0
    ELSE IF CharAt(s, i) = c THEN i ELSE FirstIndexOf(s, c, i + 1)

IsPredicate(seg) == StartsWith(seg, "[@") /\ EndsWith(seg, "\"]")

PredAttr(seg) == SubSeq(seg, 3, FirstIndexOf(seg, "=", 1) - 1)

PredValue(seg) == SubSeq(seg, FirstIndexOf(seg, "=", 1) + 2, Len(seg) - 2)

RECURSIVE ChildrenWithTag(_, _, _, _)
ChildrenWithTag(d, pos, tag, i) ==
    IF i > Len(NodeAt(d, pos).children) THEN <<>>
    ELSE (IF NodeAt(d, pos).children[i].tag = tag THEN <<Append(pos, i)>> ELSE <<>>)
         \o ChildrenWithTag(d, pos, tag, i + 1)

RECURSIVE TagStep(_, _, _, _)
TagStep(d, positions, tag, k) ==
    IF k > Len(positions) THEN <<>>
    ELSE ChildrenWithTag(d, positions[k], tag, 1) \o TagStep(d, positions, tag, k + 1)

HasAttr(n, key, value) == key \in DOMAIN n.attrib /\ n.attrib[key] = value

RECURSIVE PredStep(_, _, _, _, _)
PredStep(d, positions, key, value, k) ==
    IF k > Len(positions) THEN <<>>
    ELSE (IF HasAttr(NodeAt(d, positions[k]), key, value) THEN <<positions[k]>> ELSE <<>>)
         \o PredStep(d, positions, key, value, k + 1)

RECURSIVE EvalSteps(_, _, _, _)
EvalSteps(d, positions, segs, k) ==
    IF k > Len(segs) THEN positions
    ELSE EvalSteps(d,
                   IF IsPredicate(segs[k])
                   THEN PredStep(d, positions, PredAttr(segs[k]), PredValue(segs[k]), 1)
                   ELSE TagStep(d, positions, segs[k], 1),
                   segs, k + 1)

\* element.findall(path): the positions of the matches below the node at ctx, in
\* document order.  A path outside the contract (not starting with ".") matches
\* nothing here; the calls of this model hand over paths of the contract only.
FindAll(d, ctx, path) ==
    LET segs == SplitPath(path)
    IN  IF segs[1] # "." THEN <<>> ELSE EvalSteps(d, <<ctx>>, segs, 2)

\* element.find(path): the first match, or null.
Find(d, ctx, path) ==
    LET all == FindAll(d, ctx, path)
    IN  IF all = <<>> THEN Null ELSE all[1]


(***************************************************************************)
(* et.XML(raw): the parser of a fragment.  The fragments of this model are *)
(* single empty elements, <tag/> or <tag key="value" .../>; any other text *)
(* is malformed and makes the parser throw.                                *)
(***************************************************************************)
XMLTokens(raw) == Split(SubSeq(raw, 2, Len(raw) - 2), " ")

IsName(w) == Len(w) > 0 /\ \A i \in 1..Len(w) : CharAt(w, i) \in AlNum \cup {"-", "_"}

IsXMLAttr(w) ==
    LET eq == FirstIndexOf(w, "=", 1)
    IN  /\ eq > 1
        /\ IsName(SubSeq(w, 1, eq - 1))
        /\ Len(w) >= eq + 2
        /\ CharAt(w, eq + 1) = "\""
        /\ FirstIndexOf(w, "\"", eq + 2) = Len(w)

XMLWellFormed(raw) ==
    /\ Len(raw) >= 4
    /\ StartsWith(raw, "<")
    /\ EndsWith(raw, "/>")
    /\ IsName(XMLTokens(raw)[1])
    /\ \A k \in 2..Len(XMLTokens(raw)) : IsXMLAttr(XMLTokens(raw)[k])

XMLAttrKey(w) == SubSeq(w, 1, FirstIndexOf(w, "=", 1) - 1)

XMLAttrValue(w) == SubSeq(w, FirstIndexOf(w, "=", 1) + 2, Len(w) - 1)

XML(raw) ==
    LET toks == XMLTokens(raw)
        keys == {XMLAttrKey(toks[k]) : k \in 2..Len(toks)}
    IN  [tag |-> toks[1],
         attrib |-> [key \in keys |->
                       XMLAttrValue(toks[CHOOSE k \in 2..Len(toks) : XMLAttrKey(toks[k]) = key])],
         text |-> "",
         children |-> <<>>]

(***************************************************************************)
(* elementTree.write({indent: n}): the text of a document.  An XML         *)
(* declaration, then each element on a line of its own, indented by n      *)
(* spaces per level; an element without text and children is written as an *)
(* empty-element tag.  (The strings of this model hold no character that   *)
(* needs escaping.)                                                        *)
(***************************************************************************)
RECURSIVE Spaces(_)
Spaces(n) == IF n = 0 THEN "" ELSE " " \o Spaces(n - 1)

RECURSIVE AttribText(_, _)
AttribText(attrib, keys) ==
    IF keys = {} THEN ""
    ELSE LET key == CHOOSE k \in keys : TRUE
         IN  " " \o key \o "=\"" \o attrib[key] \o "\"" \o AttribText(attrib, keys \ {key})

RECURSIVE SerializeNode(_, _, _)
SerializeNode(n, indent, depth) ==
    LET open == Spaces(indent * depth) \o "<" \o n.tag \o AttribText(n.attrib, DOMAIN n.attrib)
        close == "</" \o n.tag \o ">\n"
        Inner[k \in 0..Len(n.children)] ==
            IF k = 0 THEN ""
            ELSE Inner[k - 1] \o SerializeNode(n.children[k], indent, depth + 1)
    IN  IF n.children = <<>>
        THEN (IF n.text = "" THEN open \o "/>\n" ELSE open \o ">" \o n.text \o close)
        ELSE open \o ">" \o n.text \o "\n" \o Inner[Len(n.children)]
                  \o Spaces(indent * depth) \o close

Serialize(d, indent) ==
    "<?xml version='1.0' encoding='utf-8'?>\n" \o SerializeNode(d, indent, 0)

(***************************************************************************)
(* The outcome of a call: the document it leaves, and whether it threw.    *)
(***************************************************************************)
Ok(d) == [doc |-> d, err |-> FALSE]

Throw(d) == [doc |-> d, err |-> TRUE]

(***************************************************************************)
(* The helper object _this.                                                *)
(***************************************************************************)
\* _this.fixAbsoluteXPath(doc, path)
fixAbsoluteXPath(d, path) ==
    LET prefix == "/" \o d.tag
    IN  IF path # "" /\ StartsWith(path, prefix)
        THEN "." \o SubSeq(path, Len(prefix) + 1, Len(path))
        ELSE path

\* The outcome of _this.parse: the document, or the message of the error thrown.
Parsed(d) == [ok |-> TRUE, doc |-> d, error |-> ""]

Failed(message) == [ok |-> FALSE, doc |-> Element(""), error |-> message]

\* parse that accepts any root tag.
parse_AnyRoot(file, contents) ==
    LET lt == FirstIndexOf(contents, "<", 1)
        text == IF contents # "" /\ lt > 0 THEN SubSeq(contents, lt, Len(contents)) ELSE contents
    IN  IF ~XMLWellFormed(text) THEN Failed("not well-formed") ELSE Parsed(XML(text))

\* _this.parse(file), contents being what fs.readFileSync(file) returns.
\* (substring(indexOf('<')) drops what precedes the first "<"; without a "<"
\* indexOf is -1 and substring(-1) is the whole text.)
parse(file, contents) ==
    LET lt == FirstIndexOf(contents, "<", 1)
        text == IF contents # "" /\ lt > 0 THEN SubSeq(contents, lt, Len(contents)) ELSE contents
    IN  IF ~XMLWellFormed(text) THEN Failed("not well-formed")
        ELSE IF XML(text).tag # "widget"
        THEN Failed(file \o " has incorrect root node name (expected \"widget\", was \""
                         \o XML(text).tag \o "\")")
        ELSE Parsed(XML(text))

(***************************************************************************)
(* The patterns, as the RegExp constructor receives them: in the string    *)
(* literals of the source a backslash before ".", "w", "/", "-", "?", ","  *)
(* "'", "+" or "$" only stands for that character, so the RegExp sees an   *)
(* unescaped "." (any character), "w" and so on.                           *)
(***************************************************************************)
\* ^[0-9a-zA-Z]([-.w]*[0-9a-zA-Z])*(:(0-9)*)*(/?)([a-zA-Z0-9-.?,'/\+&amp;%$#_]*)?$
\* (the class of the last group also holds two zero-width characters, which no
\* string of this model contains)
idRegex ==
    Cat(<<Chr(AlNum),
          Star(Cat(<<Star(Chr({"-", ".", "w"})), Chr(AlNum)>>)),
          Star(Cat(<<Lit(":"), Star(Lit("0-9"))>>)),
          Opt(Lit("/")),
          Opt(Star(Chr(AlNum \cup {"-", ".", "?", ",", "'", "/", "+", "&", ";",
                                   "%", "$", "#", "_"})))>>)

\* ^[0-9]+.[0-9]+.[0-9]+$
versionRegex ==
    Cat(<<Plus(Chr(Digit)), AnyChar, Plus(Chr(Digit)), AnyChar, Plus(Chr(Digit))>>)

\* ^[0-9]+$
androidVersionCodeRegex == Plus(Chr(Digit))

\* ^[1-9][0-9]*(.[0-9]+){0,2}$
iosBundleVersionRegex ==
    Cat(<<Chr(Digit \ {"0"}), Star(Chr(Digit)), Rep02(Cat(<<AnyChar, Plus(Chr(Digit))>>))>>)

(***************************************************************************)
(* The methods of Config.  d is the document (this._doc, whose root is     *)
(* this._root); each method yields the outcome of the call.                *)
(***************************************************************************)
\* setID that replaces the attributes of root by the id alone.
setID_DropsOthers(d, id) ==
    IF ~RegexTest(idRegex, id) THEN Throw(d)
    ELSE Ok([d EXCEPT !.attrib = SetAttr(EmptyAttrib, "id", id)])

setID(d, id) ==
    IF ~RegexTest(idRegex, id) THEN Throw(d)
    ELSE Ok([d EXCEPT !.attrib = SetAttr(@, "id", id)])

\* setElement without the lookup: a new element on every call.
setElement_AlwaysCreate(d, tag, text, attribs) ==
    Ok(AppendAt(d, <<>>, [Element(tag) EXCEPT !.text = text, !.attrib = attribs]))

\* setElement that adds the given attributes to those the element carries.
setElement_KeepAttribs(d, tag, text, attribs) ==
    LET elementTag == Find(d, <<>>, "./" \o tag)
        d1 == IF elementTag = Null THEN AppendAt(d, <<>>, Element(tag)) ELSE d
        at == IF elementTag = Null THEN <<Len(d1.children)>> ELSE elementTag
    IN  Ok(ReplaceAt(d1, at, [NodeAt(d1, at) EXCEPT !.text = text, !.attrib = attribs @@ @]))

\* (text is a string in every call the setters make, so the branch that takes
\* an attribs object in the place of text is not entered)
setElement(d, tag, text, attribs) ==
    LET elementTag == Find(d, <<>>, "./" \o tag)
        d1 == IF elementTag = Null THEN AppendAt(d, <<>>, Element(tag)) ELSE d
        at == IF elementTag = Null THEN <<Len(d1.children)>> ELSE elementTag
    IN  Ok(ReplaceAt(d1, at, [NodeAt(d1, at) EXCEPT !.text = text, !.attrib = attribs]))

setName(d, name) == setElement(d, "name", name, EmptyAttrib)

setDescription(d, description) == setElement(d, "description", description, EmptyAttrib)

setAuthor(d, name, email, website) ==
    LET a1 == IF email # "" THEN SetAttr(EmptyAttrib, "email", email) ELSE EmptyAttrib
        a2 == IF website # "" THEN SetAttr(a1, "href", website) ELSE a1
    IN  setElement(d, "author", name, a2)

setVersion(d, version) ==
    IF ~RegexTest(versionRegex, version) THEN Throw(d)
    ELSE Ok([d EXCEPT !.attrib = SetAttr(@, "version", version)])

setAndroidVersionCode(d, versionCode) ==
    IF ~RegexTest(androidVersionCodeRegex, versionCode) THEN Throw(d)
    ELSE Ok([d EXCEPT !.attrib = SetAttr(@, "android-versionCode", versionCode)])

setIOSBundleVersion(d, version) ==
    IF ~RegexTest(iosBundleVersionRegex, version) THEN Throw(d)
    ELSE Ok([d EXCEPT !.attrib = SetAttr(@, "ios-CFBundleVersion", version)])

\* this.platformElement: the constructor sets _file, _doc and _root and nothing
\* ever sets a property platformElement, so the expression is undefined and a
\* method call on it throws a TypeError.
thisPlatformElement == Null

\* setPreference that creates the platform element without looking for it.
setPreference_AlwaysCreate(d, name, value, platform) ==
    LET d1 == IF platform # ""
              THEN AppendAt(d, <<>>,
                            [Element("platform") EXCEPT !.attrib = SetAttr(@, "name", platform)])
              ELSE d
    IN  Throw(d1)

setPreference(d, name, value, platform) ==
    LET found == IF platform # ""
                 THEN Find(d, <<>>, "./platform/[@name=\"" \o platform \o "\"]")
                 ELSE <<>>
        d1 == IF found = Null
              THEN AppendAt(d, <<>>,
                            [Element("platform") EXCEPT !.attrib = SetAttr(@, "name", platform)])
              ELSE d
        platformElement == IF found = Null THEN <<Len(d1.children)>> ELSE found
        preference == Find(d1, platformElement, "./preference/[@name=\"" \o name \o "\"]")
        d2 == IF preference # Null THEN RemoveAt(d1, thisPlatformElement, preference) ELSE d1
        created == [Element("preference") EXCEPT
                      !.attrib = SetAttr(SetAttr(@, "name", name), "value", value)]
    IN  IF thisPlatformElement = Null THEN Throw(d1)
        ELSE Ok(AppendAt(d2, thisPlatformElement, created))

RECURSIVE RemoveEach(_, _, _)
RemoveEach(d, positions, k) ==
    IF k = 0 THEN d ELSE RemoveEach(RemoveAt(d, <<>>, positions[k]), positions, k - 1)

\* removeAccessOrigins that removes the first access entry only.
removeAccessOrigins_FirstOnly(d) ==
    LET tag == Find(d, <<>>, "./access")
    IN  IF tag # Null THEN Ok(RemoveAt(d, <<>>, tag)) ELSE Ok(d)

removeAccessOrigins(d) ==
    LET tags == FindAll(d, <<>>, "./access")
    IN  Ok(RemoveEach(d, tags, Len(tags)))

\* removeAccessOrigin that removes nothing.
removeAccessOrigin_Keeps(d, origin) == Ok(d)

\* removeAccessOrigin that removes the first access entry, whatever its origin.
removeAccessOrigin_AnyOrigin(d, origin) ==
    LET accessOrigin == Find(d, <<>>, "./access")
    IN  IF accessOrigin # Null THEN Ok(RemoveAt(d, <<>>, accessOrigin)) ELSE Ok(d)

removeAccessOrigin(d, origin) ==
    LET accessOrigin == Find(d, <<>>, "./access/[@origin=\"" \o origin \o "\"]")
    IN  IF accessOrigin # Null THEN Ok(RemoveAt(d, <<>>, accessOrigin)) ELSE Ok(d)

\* setAccessOrigin without the removal of the existing entry.
setAccessOrigin_NoRemove(d, origin, options) ==
    Ok(AppendAt(d, <<>>,
                [Element("access") EXCEPT !.attrib = options @@ SetAttr(@, "origin", origin)]))

setAccessOrigin(d, origin, options) ==
    LET d1 == removeAccessOrigin(d, origin).doc
        accessOrigin == [Element("access") EXCEPT
                           !.attrib = options @@ SetAttr(@, "origin", origin)]
    IN  Ok(AppendAt(d1, <<>>, accessOrigin))

\* addHook without the check of the type.
addHook_Unchecked(d, type, src) ==
    Ok(AppendAt(d, <<>>,
                [Element("hook") EXCEPT
                   !.attrib = SetAttr(SetAttr(@, "type", type), "src", src)]))

\* addHook that recognises before_ and after_ types and adds no hook twice.
addHook_Dedup(d, type, src) ==
    LET hook == [Element("hook") EXCEPT
                   !.attrib = SetAttr(SetAttr(@, "type", type), "src", src)]
    IN  IF ~(StartsWith(type, "before_") \/ StartsWith(type, "after_")) THEN Throw(d)
        ELSE IF \E i \in 1..Len(d.children) : d.children[i] = hook THEN Ok(d)
        ELSE Ok(AppendAt(d, <<>>, hook))

cordovaHookTypes ==
    <<"after_build", "after_compile", "after_clean", "after_docs", "after_emulate",
      "after_platform_add", "after_platform_rm", "after_platform_ls", "after_plugin_add",
      "after_plugin_ls", "after_plugin_rm", "after_plugin_search", "after_plugin_install",
      "after_prepare", "after_run", "after_serve", "before_build", "before_clean",
      "before_compile", "before_docs", "before_emulate", "before_platform_add",
      "before_platform_rm", "before_platform_ls", "before_plugin_add", "before_plugin_ls",
      "before_plugin_rm", "before_plugin_search", "before_plugin_install",
      "before_plugin_uninstall", "before_prepare", "before_run", "before_serve", "pre_package">>

addHook(d, type, src) ==
    IF \A i \in 1..Len(cordovaHookTypes) : cordovaHookTypes[i] # type THEN Throw(d)
    ELSE Ok(AppendAt(d, <<>>,
                     [Element("hook") EXCEPT
                        !.attrib = SetAttr(SetAttr(@, "type", type), "src", src)]))

\* addRawXML without the test of ifXPathDoesNotExist.
addRawXML_IgnoresGuard(d, raw, atXPath, ifXPathDoesNotExist) ==
    LET at == fixAbsoluteXPath(d, atXPath)
        parent == IF at # "" THEN Find(d, <<>>, at) ELSE <<>>
    IN  IF parent # Null
        THEN (IF XMLWellFormed(raw) THEN Ok(AppendAt(d, parent, XML(raw))) ELSE Throw(d))
        ELSE Ok(d)

\* addRawXML that looks for ifXPathDoesNotExist from the parent, not from root.
addRawXML_GuardFromParent(d, raw, atXPath, ifXPathDoesNotExist) ==
    LET at == fixAbsoluteXPath(d, atXPath)
        ifNot == fixAbsoluteXPath(d, ifXPathDoesNotExist)
        parent == IF at # "" THEN Find(d, <<>>, at) ELSE <<>>
        alreadyExists == ifNot # "" /\ parent # Null /\ Find(d, parent, ifNot) # Null
    IN  IF parent # Null /\ ~alreadyExists
        THEN (IF XMLWellFormed(raw) THEN Ok(AppendAt(d, parent, XML(raw))) ELSE Throw(d))
        ELSE Ok(d)

\* addRawXML that falls back to root when atXPath matches nothing.
addRawXML_RootWhenMissing(d, raw, atXPath, ifXPathDoesNotExist) ==
    LET at == fixAbsoluteXPath(d, atXPath)
        ifNot == fixAbsoluteXPath(d, ifXPathDoesNotExist)
        found == IF at # "" THEN Find(d, <<>>, at) ELSE <<>>
        parent == IF found = Null THEN <<>> ELSE found
        alreadyExists == ifNot # "" /\ Find(d, <<>>, ifNot) # Null
    IN  IF ~alreadyExists
        THEN (IF XMLWellFormed(raw) THEN Ok(AppendAt(d, parent, XML(raw))) ELSE Throw(d))
        ELSE Ok(d)

addRawXML(d, raw, atXPath, ifXPathDoesNotExist) ==
    LET at == fixAbsoluteXPath(d, atXPath)
        ifNot == fixAbsoluteXPath(d, ifXPathDoesNotExist)
        parent == IF at # "" THEN Find(d, <<>>, at) ELSE <<>>
        alreadyExists == ifNot # "" /\ Find(d, <<>>, ifNot) # Null
    IN  IF parent # Null /\ ~alreadyExists
        THEN (IF XMLWellFormed(raw) THEN Ok(AppendAt(d, parent, XML(raw))) ELSE Throw(d))
        ELSE Ok(d)

\* The indent option write and writeSync pass.
IndentWidth == 4

\* this._doc.write({indent: 4}): the text write and writeSync hand to fs, made
\* when the call is made.
write(d) == Serialize(d, IndentWidth)

writeSync(d) == Serialize(d, IndentWidth)

\* The text that reaches the file when the write w, begun by write(), is
\* carried out while the document is d: the text handed over by the call.
Written_Late(w, d) == Serialize(d, IndentWidth)

Written(w, d) == w.text

(***************************************************************************)
(* The documents a Config is constructed from (the trees parse returns:    *)
(* the root tag is widget).                                                *)
(***************************************************************************)
Node(tag, attrib, text, children) ==
    [tag |-> tag, attrib |-> attrib, text |-> text, children |-> children]

Preference(name, value) ==
    Node("preference", ("name" :> name) @@ ("value" :> value), "", <<>>)

\* <widget/>
DocEmpty == Element("widget")

\* An application with every kind of entry, each at most once.
DocApp ==
    Node("widget", ("id" :> "io.cordova.hello") @@ ("version" :> "1.0.0"), "",
         <<Node("name", ("short" :> "Hi"), "Hello", <<>>),
           Node("author", ("email" :> "old@x.io") @@ ("href" :> "http://old.io"), "Old", <<>>),
           Preference("foo", "old"),
           Node("platform", ("name" :> "ios"), "", <<Preference("foo", "old")>>),
           Node("access", ("origin" :> "*") @@ ("subdomains" :> "false"), "", <<>>)>>)

\* A file in which one origin appears twice, among other entries.
DocDup ==
    Node("widget", ("version" :> "2.0.0"), "",
         <<Node("access", ("origin" :> "*"), "", <<>>),
           Node("hook", ("type" :> "before_build") @@ ("src" :> "hooks/a.js"), "", <<>>),
           Node("access", ("origin" :> "https://a.com"), "", <<>>),
           Node("access", ("origin" :> "*") @@ ("launch-external" :> "yes"), "", <<>>),
           Node("foo", EmptyAttrib, "", <<>>)>>)

\* Platform scopes only.
DocPlatforms ==
    Node("widget", EmptyAttrib, "",
         <<Node("platform", ("name" :> "android"), "", <<>>),
           Node("platform", ("name" :> "ios"), "",
                <<Preference("baz", "1"), Preference("foo", "old")>>)>>)

LoadedDocs == {DocEmpty, DocApp, DocDup, DocPlatforms}

(***************************************************************************)
(* The arguments the calls are made with.                                  *)
(***************************************************************************)
\* The path of the file, and what the file may hold when the Config is
\* constructed ("~" stands for a byte order mark).
FilePath == "config.xml"

FileContents ==
    {"<widget/>", "<widget id=\"io.cordova.hello\" version=\"1.0.0\"/>", "~<widget/>",
     "<plugin/>", "~<html lang=\"en\"/>", "<widget", "no markup", ""}

IDs == {"io.cordova.hello2", "bad id!"}

Names == {"My App"}

Descriptions == {"A sample"}

Authors == {<<"Sam", "", "">>, <<"Sam", "sam@x.io", "http://x.io">>}

Versions == {"1.0.1", "1.0", "12345"}

VersionCodes == {"7", "x7"}

BundleVersions == {"1.2", "0.1"}

PreferenceNames == {"foo", "baz"}

PreferenceValues == {"bar", "qux"}

\* "" is the call that names no platform.
Platforms == {"", "ios", "android"}

Origins == {"*", "https://a.com"}

OriginOptions ==
    {EmptyAttrib, ("subdomains" :> "true"), ("origin" :> "*") @@ ("subdomains" :> "true")}

SomeHookTypes == {"before_build", "after_plugin_uninstall", "not_a_real_hook"}

HookSources == {"hooks/a.js"}

\* The second is malformed.
RawFragments == {"<foo/>", "<foo"}

\* "" is the call that omits the argument.  The paths are those of the tree
\* contract, relative or absolute below the root tag.
AtXPaths == {"", "./platform", "/widget/platform/[@name=\"ios\"]", "./missing/path"}

IfXPaths == {"", "./foo", "/widget/platform/foo"}

\* The characters of the strings SpecVersion hands to setVersion.
VersionAlphabet == {"0", "7", ".", "a"}

RECURSIVE StringsOfLen(_)
StringsOfLen(n) ==
    IF n = 0 THEN {""}
    ELSE {s \o c : s \in StringsOfLen(n - 1), c \in VersionAlphabet}

StringsUpTo(n) == UNION {StringsOfLen(k) : k \in 0..n}

(***************************************************************************)
(* The state: doc is the document of the Config; last is the last call     *)
(* made on it (its name, arguments and whether it threw), pre the document *)
(* before that call and pre2 the document before the call preceding it;    *)
(* repeat says that the last call repeated the call before it.  handle     *)
(* says that a Config exists (its constructor returned), loadError is the  *)
(* message of the error the constructor threw, disk is the content of the  *)
(* file, and inflight holds the writes that write() has handed to the file *)
(* system and that are not yet carried out.  Init is a Config constructed  *)
(* from a well-formed file with root widget.                               *)
(***************************************************************************)
Init ==
    /\ doc \in LoadedDocs
    /\ pre = doc
    /\ pre2 = doc
    /\ last = [op |-> "load", args |-> <<>>, err |-> FALSE]
    /\ repeat = FALSE
    /\ nCalls = 0
    /\ handle = TRUE
    /\ loadError = ""
    /\ disk = Serialize(doc, IndentWidth)
    /\ inflight = <<>>

\* A call op(args) with outcome r.
Call(op, args, r) ==
    /\ handle
    /\ nCalls < MaxCalls
    /\ UNCHANGED <<handle, loadError, disk, inflight>>
    /\ doc' = r.doc
    /\ pre' = doc
    /\ pre2' = pre
    /\ last' = [op |-> op, args |-> args, err |-> r.err]
    /\ repeat' = (last.op = op /\ last.args = args)
    /\ nCalls' = nCalls + 1

SetID == \E id \in IDs : Call("setID", <<id>>, setID(doc, id))

SetName == \E name \in Names : Call("setName", <<name>>, setName(doc, name))

SetDescription ==
    \E description \in Descriptions :
        Call("setDescription", <<description>>, setDescription(doc, description))

SetAuthor == \E a \in Authors : Call("setAuthor", a, setAuthor(doc, a[1], a[2], a[3]))

SetVersion == \E version \in Versions : Call("setVersion", <<version>>, setVersion(doc, version))

SetAndroidVersionCode ==
    \E versionCode \in VersionCodes :
        Call("setAndroidVersionCode", <<versionCode>>, setAndroidVersionCode(doc, versionCode))

SetIOSBundleVersion ==
    \E version \in BundleVersions :
        Call("setIOSBundleVersion", <<version>>, setIOSBundleVersion(doc, version))

SetPreference ==
    \E name \in PreferenceNames, value \in PreferenceValues, platform \in Platforms :
        Call("setPreference", <<name, value, platform>>,
             setPreference(doc, name, value, platform))

RemoveAccessOrigins == Call("removeAccessOrigins", <<>>, removeAccessOrigins(doc))

RemoveAccessOrigin ==
    \E origin \in Origins :
        Call("removeAccessOrigin", <<origin>>, removeAccessOrigin(doc, origin))

SetAccessOrigin ==
    \E origin \in Origins, options \in OriginOptions :
        Call("setAccessOrigin", <<origin, options>>, setAccessOrigin(doc, origin, options))

AddHook ==
    \E type \in SomeHookTypes, src \in HookSources :
        Call("addHook", <<type, src>>, addHook(doc, type, src))

AddRawXML ==
    \E raw \in RawFragments, atXPath \in AtXPaths, ifXPathDoesNotExist \in IfXPaths :
        Call("addRawXML", <<raw, atXPath, ifXPathDoesNotExist>>,
             addRawXML(doc, raw, atXPath, ifXPathDoesNotExist))

Next ==
    \/ SetID
    \/ SetName
    \/ SetDescription
    \/ SetAuthor
    \/ SetVersion
    \/ SetAndroidVersionCode
    \/ SetIOSBundleVersion
    \/ SetPreference
    \/ RemoveAccessOrigins
    \/ RemoveAccessOrigin
    \/ SetAccessOrigin
    \/ AddHook
    \/ AddRawXML

Spec == Init /\ [][Next]_vars

(***************************************************************************)
(* The life of a Config from its construction: new Config(file) on every   *)
(* content of the file, then the calls above, write() and writeSync(), and *)
(* the completion of the writes that write() began, each at any later      *)
(* time.  No handle exists before the construction or after it failed.     *)
(***************************************************************************)
NoDocument == Element("")

InitLoad ==
    /\ handle = FALSE
    /\ loadError = ""
    /\ disk \in FileContents
    /\ inflight = <<>>
    /\ doc = NoDocument
    /\ pre = doc
    /\ pre2 = doc
    /\ last = [op |-> "none", args |-> <<>>, err |-> FALSE]
    /\ repeat = FALSE
    /\ nCalls = 0

\* new Config(FilePath)
Construct ==
    /\ ~handle
    /\ last.op = "none"
    /\ LET r == parse(FilePath, disk)
       IN  /\ handle' = r.ok
           /\ loadError' = r.error
           /\ doc' = IF r.ok THEN r.doc ELSE NoDocument
           /\ pre' = doc'
           /\ pre2' = doc'
           /\ last' = [op |-> "load", args |-> <<FilePath>>, err |-> ~r.ok]
    /\ UNCHANGED <<repeat, nCalls, disk, inflight>>

\* A call that leaves the document to itself.
Output(op) ==
    /\ handle
    /\ nCalls < MaxCalls
    /\ pre' = doc
    /\ pre2' = pre
    /\ last' = [op |-> op, args |-> <<>>, err |-> FALSE]
    /\ repeat' = (last.op = op)
    /\ nCalls' = nCalls + 1
    /\ UNCHANGED <<doc, handle, loadError>>

\* write(): the text is made and handed to fs.writeFile, which writes later.
Write ==
    /\ Output("write")
    /\ inflight' = Append(inflight, [text |-> write(doc), snapshot |-> doc])
    /\ UNCHANGED disk

\* writeSync(): the text is made and written before the call returns.
WriteSync ==
    /\ Output("writeSync")
    /\ disk' = writeSync(doc)
    /\ UNCHANGED inflight

\* fs.writeFile carries out one of the writes begun (the promise resolves).
\* snapshot is the document as it was when write() was called.
FinishWrite ==
    \E i \in 1..Len(inflight) :
        /\ disk' = Written(inflight[i], doc)
        /\ inflight' = SubSeq(inflight, 1, i - 1) \o SubSeq(inflight, i + 1, Len(inflight))
        /\ last' = [op |-> "written", args |-> <<inflight[i].snapshot>>, err |-> FALSE]
        /\ pre' = doc
        /\ pre2' = pre
        /\ repeat' = FALSE
        /\ UNCHANGED <<doc, nCalls, handle, loadError>>

\* fs.writeFile fails (the promise rejects): the file is as it was, or empty
\* when the failure came after the file was opened.
FailWrite ==
    \E i \in 1..Len(inflight), truncated \in BOOLEAN :
        /\ disk' = IF truncated THEN "" ELSE disk
        /\ inflight' = SubSeq(inflight, 1, i - 1) \o SubSeq(inflight, i + 1, Len(inflight))
        /\ last' = [op |-> "written", args |-> <<inflight[i].snapshot>>, err |-> TRUE]
        /\ pre' = doc
        /\ pre2' = pre
        /\ repeat' = FALSE
        /\ UNCHANGED <<doc, nCalls, handle, loadError>>

NextIO ==
    \/ Construct
    \/ Next
    \/ Write
    \/ WriteSync
    \/ FinishWrite
    \/ FailWrite

SpecIO == InitLoad /\ [][NextIO]_vars

(***************************************************************************)
(* setPreference alone, on the loaded documents (in none of which two      *)
(* platform children of root have the same name).                          *)
(***************************************************************************)
NextPreference == SetPreference

SpecPreference == Init /\ [][NextPreference]_vars

(***************************************************************************)
(* The access calls alone (setAccessOrigin, removeAccessOrigin and         *)
(* removeAccessOrigins), on the loaded documents in which no two access    *)
(* children of root have the same origin.                                  *)
(***************************************************************************)
OriginsUnique(d) ==
    \A i, j \in 1..Len(d.children) :
        (/\ i # j
         /\ d.children[i].tag = "access"
         /\ d.children[j].tag = "access"
         /\ "origin" \in DOMAIN d.children[i].attrib
         /\ "origin" \in DOMAIN d.children[j].attrib)
        => d.children[i].attrib["origin"] # d.children[j].attrib["origin"]

InitAccess == Init /\ OriginsUnique(doc)

NextAccess ==
    \/ SetAccessOrigin
    \/ RemoveAccessOrigin
    \/ RemoveAccessOrigins

SpecAccess == InitAccess /\ [][NextAccess]_vars

(***************************************************************************)
(* setVersion alone: one call on a loaded document, with every string over *)
(* VersionAlphabet of length at most MaxLen.                               *)
(***************************************************************************)
SetVersionAny ==
    /\ nCalls = 0
    /\ \E version \in StringsUpTo(MaxLen) :
           Call("setVersion", <<version>>, setVersion(doc, version))

NextVersion == SetVersionAny

SpecVersion == Init /\ [][NextVersion]_vars

(***************************************************************************)
(* addHook alone, called with every type the specification names and some *)
(* it does not.                                                            *)
(***************************************************************************)
HookEvents ==
    {"build", "compile", "clean", "docs", "emulate", "platform_add", "platform_rm",
     "platform_ls", "plugin_add", "plugin_ls", "plugin_rm", "plugin_search",
     "plugin_install", "plugin_uninstall", "prepare", "run", "serve"}

\* before_X and after_X for each event X, plus pre_package.
NamedHookTypes ==
    {"before_" \o x : x \in HookEvents} \cup {"after_" \o x : x \in HookEvents}
        \cup {"pre_package"}

OtherHookTypes == {"not_a_real_hook", "", "build", "Before_build", "before_package"}

AddHookAny ==
    \E type \in NamedHookTypes \cup OtherHookTypes, src \in HookSources :
        Call("addHook", <<type, src>>, addHook(doc, type, src))

NextHook == AddHookAny

SpecHook == Init /\ [][NextHook]_vars

(***************************************************************************)
(* What the properties below speak of.                                     *)
(***************************************************************************)
\* The children of root that are preference entries named name.
RootPreferences(d, name) ==
    LET Is(c) == c.tag = "preference" /\ HasAttr(c, "name", name)
    IN  SelectSeq(d.children, Is)

\* The children of root that are platform scopes named name.
PlatformsNamed(d, name) ==
    LET Is(c) == c.tag = "platform" /\ HasAttr(c, "name", name)
    IN  SelectSeq(d.children, Is)

\* The names of the platform children of root.
PlatformNames(d) ==
    {d.children[i].attrib["name"] :
        i \in {j \in 1..Len(d.children) :
                  d.children[j].tag = "platform" /\ "name" \in DOMAIN d.children[j].attrib}}

\* s holds p as a run of consecutive characters.
Contains(s, p) ==
    \E i \in 1..(Len(s) + 1) : i + Len(p) - 1 <= Len(s) /\ SubSeq(s, i, i + Len(p) - 1) = p

\* The tag of the root element of a file content that holds a single element,
\* after whatever precedes its "<" ("" for any other content).
RootTagOf(contents) ==
    LET lt == FirstIndexOf(contents, "<", 1)
        body == SubSeq(contents, lt + 1, Len(contents) - 2)
        sp == FirstIndexOf(body, " ", 1)
    IN  IF lt = 0 \/ ~EndsWith(contents, "/>") THEN ""
        ELSE IF sp = 0 THEN body ELSE SubSeq(body, 1, sp - 1)

\* The children of root that are access entries for origin.
AccessWithOrigin(d, origin) ==
    LET Is(c) == c.tag = "access" /\ HasAttr(c, "origin", origin)
    IN  SelectSeq(d.children, Is)

\* The children of root with the given tag, in document order.
ChildrenTagged(d, tag) ==
    LET Is(c) == c.tag = tag
    IN  SelectSeq(d.children, Is)

\* The nodes a path expression selects in document d, for a relative path and
\* for an absolute one (which names the root tag first).
Matches(d, path) ==
    LET segs == SplitPath(path)
    IN  IF StartsWith(path, "/")
        THEN (IF Len(segs) >= 2 /\ segs[2] = d.tag
              THEN EvalSteps(d, <<<<>>>>, segs, 3) ELSE <<>>)
        ELSE FindAll(d, <<>>, path)

\* MAJOR.MINOR.PATCH: exactly three non-empty runs of decimal digits.
IsMajorMinorPatch(s) ==
    LET parts == Split(s, ".")
    IN  /\ Len(parts) = 3
        /\ \A k \in 1..3 :
              /\ Len(parts[k]) > 0
              /\ \A i \in 1..Len(parts[k]) : CharAt(parts[k], i) \in Digit

\* The calls the specification says are idempotent.
IdempotentOps ==
    {"setID", "setName", "setDescription", "setAuthor", "setVersion",
     "setAndroidVersionCode", "setIOSBundleVersion", "setPreference",
     "setAccessOrigin", "removeAccessOrigin", "removeAccessOrigins"}

(***************************************************************************)
(* C1.  A mutation call that raises an error leaves the document as it was *)
(* immediately before the call.                                            *)
(* Refuted: setPreference with a platform the document lacks appends the   *)
(* platform element and then throws.                                       *)
(***************************************************************************)
C1_ErrorLeavesDocumentUnchanged == last.err => doc = pre

(***************************************************************************)
(* C2.  After setPreference(n, v) with no platform (once, or twice in a    *)
(* row) the call has completed without error and root has exactly one      *)
(* preference child named n, whose value is v.                             *)
(* Refuted: every call of setPreference throws.                            *)
(***************************************************************************)
C2_RootPreferenceUpsert ==
    (last.op = "setPreference" /\ last.args[3] = "") =>
        /\ ~last.err
        /\ Len(RootPreferences(doc, last.args[1])) = 1
        /\ HasAttr(RootPreferences(doc, last.args[1])[1], "value", last.args[2])

(***************************************************************************)
(* C3.  setPreference(n, v, p) on a document with no platform child named  *)
(* p creates exactly one platform child named p holding exactly one        *)
(* preference, named n with value v; and a call for platform p leaves the  *)
(* platform children with other names unchanged.                           *)
(* Refuted: the platform child is created empty, and the call throws.      *)
(***************************************************************************)
C3_PlatformScoping ==
    (last.op = "setPreference" /\ last.args[3] # "") =>
        LET n == last.args[1]
            v == last.args[2]
            p == last.args[3]
        IN  /\ PlatformsNamed(pre, p) = <<>> =>
                  /\ Len(PlatformsNamed(doc, p)) = 1
                  /\ PlatformsNamed(doc, p)[1].children = <<Preference(n, v)>>
            /\ \A i \in 1..Len(pre.children) :
                  (pre.children[i].tag = "platform" /\ ~HasAttr(pre.children[i], "name", p))
                      => (i <= Len(doc.children) /\ doc.children[i] = pre.children[i])

(***************************************************************************)
(* C4.  setVersion(s) succeeds and sets root's version attribute to s when *)
(* s is MAJOR.MINOR.PATCH; for every other s it fails and the attribute    *)
(* keeps its previous value or stays absent.                               *)
(* Refuted: the pattern's dots are unescaped, so any character separates   *)
(* the digit runs.                                                         *)
(***************************************************************************)
C4_SetVersionValidates ==
    last.op = "setVersion" =>
        IF IsMajorMinorPatch(last.args[1])
        THEN ~last.err /\ HasAttr(doc, "version", last.args[1])
        ELSE last.err /\ doc.attrib = pre.attrib

(***************************************************************************)
(* C5 as stated.  On a document with at most one access child for origin   *)
(* o, after setAccessOrigin(o, opts) with any options map root has exactly *)
(* one access child with origin o, whose attributes are exactly origin = o *)
(* plus the entries of opts.                                               *)
(***************************************************************************)
C5_Original ==
    (last.op = "setAccessOrigin" /\ Len(AccessWithOrigin(pre, last.args[1])) <= 1) =>
        LET o == last.args[1]
            opts == last.args[2]
            entries == AccessWithOrigin(doc, o)
        IN  /\ Len(entries) = 1
            /\ DOMAIN entries[1].attrib = {"origin"} \cup DOMAIN opts
            /\ entries[1].attrib["origin"] = o
            /\ \A k \in DOMAIN opts : entries[1].attrib[k] = opts[k]

\* The options map does not itself give an origin other than o.
KeepsOrigin(o, opts) == "origin" \notin DOMAIN opts \/ opts["origin"] = o

(***************************************************************************)
(* C5 as amended.  The same, for every options map that holds no origin    *)
(* key with a value other than o.                                          *)
(***************************************************************************)
C5_Amended ==
    (/\ last.op = "setAccessOrigin"
     /\ Len(AccessWithOrigin(pre, last.args[1])) <= 1
     /\ KeepsOrigin(last.args[1], last.args[2])) =>
        LET o == last.args[1]
            opts == last.args[2]
            entries == AccessWithOrigin(doc, o)
        IN  /\ ~last.err
            /\ Len(entries) = 1
            /\ DOMAIN entries[1].attrib = {"origin"} \cup DOMAIN opts
            /\ entries[1].attrib["origin"] = o
            /\ \A k \in DOMAIN opts : entries[1].attrib[k] = opts[k]

\* An entry for o existed, with an attribute the call does not give, and was replaced.
C5_Witness ==
    /\ last.op = "setAccessOrigin"
    /\ KeepsOrigin(last.args[1], last.args[2])
    /\ Len(AccessWithOrigin(pre, last.args[1])) = 1
    /\ ~(DOMAIN AccessWithOrigin(pre, last.args[1])[1].attrib
            \subseteq ({"origin"} \cup DOMAIN last.args[2]))
    /\ Len(AccessWithOrigin(doc, last.args[1])) = 1

(***************************************************************************)
(* C6 as stated.  addHook(type, src) succeeds exactly when type is         *)
(* before_X or after_X for one of the seventeen events X, or pre_package;  *)
(* otherwise it fails and adds nothing.                                    *)
(***************************************************************************)
C6_Original ==
    last.op = "addHook" =>
        /\ ~last.err <=> last.args[1] \in NamedHookTypes
        /\ last.err => doc = pre

(***************************************************************************)
(* C6 as amended.  addHook(type, src) succeeds exactly when type is one of *)
(* those names other than after_plugin_uninstall (34 names); otherwise it  *)
(* fails and adds nothing.                                                 *)
(***************************************************************************)
C6_Amended ==
    last.op = "addHook" =>
        /\ ~last.err <=> last.args[1] \in (NamedHookTypes \ {"after_plugin_uninstall"})
        /\ last.err => doc = pre

C6_Witness ==
    /\ last.op = "addHook"
    /\ last.args[1] = "after_plugin_uninstall"
    /\ last.err
    /\ doc = pre

(***************************************************************************)
(* C7.  A successful addHook(t, s) appends one hook node with type = t and *)
(* src = s as the last child of root, also when an identical hook exists,  *)
(* and removes or changes no other child.                                  *)
(***************************************************************************)
C7_AddHookAppends ==
    (last.op = "addHook" /\ ~last.err) =>
        doc = [pre EXCEPT !.children =
                  Append(@, Node("hook", ("type" :> last.args[1]) @@ ("src" :> last.args[2]),
                                 "", <<>>))]

\* The same hook was added twice in a row.
C7_Witness ==
    /\ last.op = "addHook"
    /\ repeat
    /\ ~last.err
    /\ Len(doc.children) = Len(pre2.children) + 2

(***************************************************************************)
(* C8 as stated.  For each setter and remover, from every document and     *)
(* with every argument tuple, the call made twice in a row leaves the      *)
(* document the first call left.                                           *)
(***************************************************************************)
C8_Original == (repeat /\ last.op \in IdempotentOps) => doc = pre

\* What the amended C8 asks of the document before the first of the two calls.
C8_Condition ==
    /\ last.op \in {"setAccessOrigin", "removeAccessOrigin"}
          => Len(AccessWithOrigin(pre2, last.args[1])) <= 1
    /\ last.op = "setAccessOrigin" => KeepsOrigin(last.args[1], last.args[2])

(***************************************************************************)
(* C8 as amended.  The same, except that for setAccessOrigin(o, opts) and  *)
(* removeAccessOrigin(o) the document before the first call holds at most  *)
(* one access child with origin o, and opts holds no origin key with a     *)
(* value other than o.                                                     *)
(***************************************************************************)
C8_Amended == (repeat /\ last.op \in IdempotentOps /\ C8_Condition) => doc = pre

\* A call that changed the document was repeated.
C8_Witness ==
    /\ repeat
    /\ last.op \in {"setAuthor", "setAccessOrigin"}
    /\ C8_Condition
    /\ ~last.err
    /\ pre # pre2

(***************************************************************************)
(* C9 as stated.  addRawXML made twice in a row with the same arguments,   *)
(* with or without ifXPathDoesNotExist, leaves the document the first call *)
(* left.                                                                   *)
(***************************************************************************)
C9_Original == (repeat /\ last.op = "addRawXML") => doc = pre

(***************************************************************************)
(* C9 as amended.  The second of two equal addRawXML calls leaves the      *)
(* document the first left exactly when ifXPathDoesNotExist is given and   *)
(* matches a node after the first call, or atXPath is given and matches no *)
(* node, or the fragment is malformed; in every other case, so whenever    *)
(* ifXPathDoesNotExist is omitted and the parent is found, it appends one  *)
(* more copy of the fragment to the parent.                                *)
(***************************************************************************)
C9_Amended ==
    (repeat /\ last.op = "addRawXML") =>
        LET raw == last.args[1]
            at == last.args[2]
            ifNot == last.args[3]
            guarded == ifNot # "" /\ Matches(pre, ifNot) # <<>>
            noParent == at # "" /\ Matches(pre, at) = <<>>
            parent == IF at = "" THEN <<>> ELSE Matches(pre, at)[1]
        IN  /\ doc = pre <=> (guarded \/ noParent \/ ~XMLWellFormed(raw))
            /\ doc # pre =>
                  NodeAt(doc, parent).children = Append(NodeAt(pre, parent).children, XML(raw))

\* The first call added the fragment and the guard stopped the second.
C9_Witness ==
    /\ repeat
    /\ last.op = "addRawXML"
    /\ last.args[3] # ""
    /\ ~last.err
    /\ pre # pre2
    /\ doc = pre

(***************************************************************************)
(* C10.  addRawXML raises nothing and changes nothing when atXPath is      *)
(* given and matches no node, or when ifXPathDoesNotExist is given and     *)
(* matches a node; otherwise the parsed fragment is appended as the last   *)
(* child of the first node atXPath matches, or of root without atXPath.    *)
(***************************************************************************)
C10_AddRawXMLSkipsOrAppends ==
    last.op = "addRawXML" =>
        LET raw == last.args[1]
            at == last.args[2]
            ifNot == last.args[3]
            skip == \/ at # "" /\ Matches(pre, at) = <<>>
                    \/ ifNot # "" /\ Matches(pre, ifNot) # <<>>
            parent == IF at = "" THEN <<>> ELSE Matches(pre, at)[1]
        IN  IF skip
            THEN ~last.err /\ doc = pre
            ELSE XMLWellFormed(raw) =>
                    /\ ~last.err
                    /\ doc = ReplaceAt(pre, parent,
                                       [NodeAt(pre, parent) EXCEPT
                                          !.children = Append(@, XML(raw))])

\* atXPath was given and matched nothing: nothing was added, nothing raised.
C10_Witness ==
    /\ last.op = "addRawXML"
    /\ last.args[2] = "./missing/path"
    /\ last.args[3] = ""
    /\ XMLWellFormed(last.args[1])
    /\ ~last.err
    /\ doc = pre

(***************************************************************************)
(* C11.  Constructing a Config from a file whose root element is not       *)
(* widget fails, with an error whose message holds the path of the file,   *)
(* the expected tag "widget" and the tag found, and no Config exists       *)
(* afterwards; and the root tag of the document of every Config that       *)
(* exists is widget, in every state that mutation and write calls reach.   *)
(***************************************************************************)
C11_LoadGatesOnRootTag ==
    /\ (last.op = "load" /\ RootTagOf(disk) \notin {"", "widget"}) =>
          /\ last.err
          /\ ~handle
          /\ Contains(loadError, FilePath)
          /\ Contains(loadError, "expected \"widget\"")
          /\ Contains(loadError, "was \"" \o RootTagOf(disk) \o "\"")
    /\ handle => doc.tag = "widget"
    /\ ~handle => nCalls = 0 /\ inflight = <<>>

\* The file held an html element after a byte order mark: the construction
\* failed and the message names the file and html.
C11_Witness ==
    /\ last.op = "load"
    /\ RootTagOf(disk) = "html"
    /\ ~handle
    /\ Contains(loadError, FilePath)
    /\ Contains(loadError, "html")

(***************************************************************************)
(* C12.  After setAuthor(name, email, website) the first author child of   *)
(* root has text name and exactly the attributes email (if an email was    *)
(* given) and href (if a website was given); after setName and             *)
(* setDescription the first name or description child has the given text   *)
(* and no attribute.  Whatever attributes the element carried before the   *)
(* call are gone.                                                          *)
(***************************************************************************)
C12_UpsertReplacesAttributes ==
    (last.op \in {"setAuthor", "setName", "setDescription"}) =>
        LET tag == CASE last.op = "setAuthor" -> "author"
                     [] last.op = "setName" -> "name"
                     [] OTHER -> "description"
            email == IF last.op = "setAuthor" THEN last.args[2] ELSE ""
            website == IF last.op = "setAuthor" THEN last.args[3] ELSE ""
            keys == {k \in {"email"} : email # ""} \cup {k \in {"href"} : website # ""}
            found == ChildrenTagged(doc, tag)
        IN  /\ ~last.err
            /\ found # <<>>
            /\ LET e == found[1]
               IN  /\ e.text = last.args[1]
                   /\ DOMAIN e.attrib = keys
                   /\ "email" \in keys => e.attrib["email"] = email
                   /\ "href" \in keys => e.attrib["href"] = website

\* setAuthor with a name only, on a document whose author carried an email and
\* a website: both are gone.
C12_Witness ==
    /\ last.op = "setAuthor"
    /\ last.args[2] = ""
    /\ last.args[3] = ""
    /\ ChildrenTagged(pre, "author") # <<>>
    /\ DOMAIN ChildrenTagged(pre, "author")[1].attrib = {"email", "href"}
    /\ DOMAIN ChildrenTagged(doc, "author")[1].attrib = {}

(***************************************************************************)
(* C13.  removeAccessOrigins() raises nothing and leaves no access child   *)
(* of root, whatever access children the document held (one, several,      *)
(* with distinct or repeated origins); the other children of root remain,  *)
(* unchanged and in their order, and so do the attributes of root.         *)
(***************************************************************************)
C13_RemoveAccessOriginsRemovesAll ==
    last.op = "removeAccessOrigins" =>
        LET NotAccess(c) == c.tag # "access"
        IN  /\ ~last.err
            /\ ChildrenTagged(doc, "access") = <<>>
            /\ doc = [pre EXCEPT !.children = SelectSeq(@, NotAccess)]

\* The document held three access children, two of them with the same origin,
\* between other children.
C13_Witness ==
    /\ last.op = "removeAccessOrigins"
    /\ Len(ChildrenTagged(pre, "access")) >= 3
    /\ Len(AccessWithOrigin(pre, "*")) >= 2
    /\ Len(doc.children) >= 2
    /\ ChildrenTagged(doc, "access") = <<>>

(***************************************************************************)
(* C14.  When ifXPathDoesNotExist matches the element that addRawXML adds  *)
(* (the fragment, once it is the last child of the parent atXPath          *)
(* selects), calling addRawXML(raw, atXPath, ifXPathDoesNotExist) again    *)
(* changes nothing: after two equal calls the document is the one the      *)
(* first call left, which is the document before it either unchanged or    *)
(* with the fragment added once.                                           *)
(***************************************************************************)
C14_GuardedInsertionIdempotent ==
    (/\ repeat
     /\ last.op = "addRawXML"
     /\ XMLWellFormed(last.args[1])
     /\ last.args[3] # ""
     /\ last.args[2] # "" => Matches(pre2, last.args[2]) # <<>>
     /\ LET parent == IF last.args[2] = "" THEN <<>> ELSE Matches(pre2, last.args[2])[1]
            added == AppendAt(pre2, parent, XML(last.args[1]))
            new == Append(parent, Len(NodeAt(added, parent).children))
            matched == Matches(added, last.args[3])
        IN  \E k \in 1..Len(matched) : matched[k] = new) =>
        LET parent == IF last.args[2] = "" THEN <<>> ELSE Matches(pre2, last.args[2])[1]
        IN  /\ ~last.err
            /\ doc = pre
            /\ pre = pre2 \/ pre = AppendAt(pre2, parent, XML(last.args[1]))

\* The first call added the fragment under a platform element; the second,
\* whose guard names that fragment by an absolute path, added nothing.
C14_Witness ==
    /\ repeat
    /\ last.op = "addRawXML"
    /\ last.args[2] # ""
    /\ StartsWith(last.args[3], "/")
    /\ Matches(pre2, last.args[3]) = <<>>
    /\ Matches(pre, last.args[3]) # <<>>
    /\ pre # pre2
    /\ doc = pre

(***************************************************************************)
(* C15 as stated.  Starting from a document in which no two access         *)
(* children of root have the same origin, after any sequence of            *)
(* setAccessOrigin(o, opts) (any origin, any options map),                 *)
(* removeAccessOrigin(o) and removeAccessOrigins() calls no two access     *)
(* children of root have the same origin.                                  *)
(* Refuted: an options map with an origin key gives the new entry that     *)
(* origin, which another entry may already have.                           *)
(***************************************************************************)
C15_Original == OriginsUnique(doc)

(***************************************************************************)
(* C15 as amended.  Each setAccessOrigin(o, opts) whose options map holds  *)
(* no origin key with a value other than o, each removeAccessOrigin(o)     *)
(* and each removeAccessOrigins(), made on a document in which no two      *)
(* access children of root have the same origin, leaves such a document;   *)
(* so under any sequence of such calls the origins stay unique.            *)
(***************************************************************************)
C15_Amended ==
    (/\ last.op \in {"setAccessOrigin", "removeAccessOrigin", "removeAccessOrigins"}
     /\ last.op = "setAccessOrigin" => KeepsOrigin(last.args[1], last.args[2])
     /\ OriginsUnique(pre)) =>
        OriginsUnique(doc)

\* An entry for o was replaced in a document that holds another origin too,
\* after an earlier access call.
C15_Witness ==
    /\ nCalls >= 2
    /\ last.op = "setAccessOrigin"
    /\ KeepsOrigin(last.args[1], last.args[2])
    /\ OriginsUnique(pre)
    /\ Len(AccessWithOrigin(pre, last.args[1])) = 1
    /\ Len(ChildrenTagged(doc, "access")) >= 2
    /\ OriginsUnique(doc)

(***************************************************************************)
(* C16.  removeAccessOrigin(o) raises nothing.  If root has an access      *)
(* child with origin o, the first such child is removed and nothing else   *)
(* changes: every other child of root, access children with other origins  *)
(* included, is as it was and in its place relative to the others.  If     *)
(* root has no access child with origin o, the document is unchanged.      *)
(***************************************************************************)
C16_RemoveAccessOriginRemovesOnlyMatch ==
    last.op = "removeAccessOrigin" =>
        LET o == last.args[1]
            IsMatch(i) == pre.children[i].tag = "access" /\ HasAttr(pre.children[i], "origin", o)
            matches == {i \in 1..Len(pre.children) : IsMatch(i)}
            first == CHOOSE i \in matches : \A j \in matches : i <= j
        IN  /\ ~last.err
            /\ IF matches = {} THEN doc = pre
               ELSE doc = [pre EXCEPT !.children =
                              SubSeq(@, 1, first - 1) \o SubSeq(@, first + 1, Len(@))]

\* The entry for o stood between access children with another origin: it is
\* gone and they remain.
C16_Witness ==
    /\ last.op = "removeAccessOrigin"
    /\ Len(AccessWithOrigin(pre, last.args[1])) = 1
    /\ Len(ChildrenTagged(pre, "access")) >= 3
    /\ AccessWithOrigin(doc, last.args[1]) = <<>>
    /\ Len(ChildrenTagged(doc, "access")) = Len(ChildrenTagged(pre, "access")) - 1

\* No entry for o: nothing changed and nothing was raised.
C16_WitnessAbsent ==
    /\ last.op = "removeAccessOrigin"
    /\ AccessWithOrigin(pre, last.args[1]) = <<>>
    /\ ChildrenTagged(pre, "access") # <<>>
    /\ ~last.err
    /\ doc = pre

(***************************************************************************)
(* C17.  Under setPreference calls alone (any names, values and platforms, *)
(* each call completing or raising) on a document in which no two platform *)
(* children of root have the same name, no two platform children of root   *)
(* ever have the same name, and each call adds no platform child other     *)
(* than one named by its platform argument: the platform names of the      *)
(* document are those it had before the call and, at most, that argument.  *)
(***************************************************************************)
C17_PlatformNodesStayUnique ==
    /\ \A i, j \in 1..Len(doc.children) :
          (/\ i # j
           /\ doc.children[i].tag = "platform"
           /\ doc.children[j].tag = "platform"
           /\ "name" \in DOMAIN doc.children[i].attrib
           /\ "name" \in DOMAIN doc.children[j].attrib)
          => doc.children[i].attrib["name"] # doc.children[j].attrib["name"]
    /\ last.op = "setPreference" =>
          PlatformNames(doc) \subseteq PlatformNames(pre) \cup ({last.args[3]} \ {""})

\* Two calls in a row for a platform the loaded document lacked: the first
\* created its element, the second found it.
C17_Witness ==
    /\ repeat
    /\ last.op = "setPreference"
    /\ last.args[3] # ""
    /\ PlatformsNamed(pre2, last.args[3]) = <<>>
    /\ Len(PlatformsNamed(pre, last.args[3])) = 1
    /\ Len(PlatformsNamed(doc, last.args[3])) = 1

(***************************************************************************)
(* C18.  The text a write() hands to the file system is the text of the    *)
(* document as it is when write() is called: when the write is carried out *)
(* the file holds the text of that document, whatever calls changed the    *)
(* document in between; and write() and writeSync() leave the document in  *)
(* memory as it was (writeSync having written its text to the file).       *)
(***************************************************************************)
C18_WriteCapturesDocumentAtCall ==
    /\ \A i \in 1..Len(inflight) :
          inflight[i].text = Serialize(inflight[i].snapshot, IndentWidth)
    /\ (last.op = "written" /\ ~last.err) => disk = Serialize(last.args[1], IndentWidth)
    /\ last.op \in {"write", "writeSync"} => doc = pre
    /\ last.op = "writeSync" => disk = Serialize(doc, IndentWidth)

\* A write was carried out after the document had changed since write() was
\* called: the file holds the text of the document of that time, which is not
\* the text of the document now.
C18_Witness ==
    /\ last.op = "written"
    /\ ~last.err
    /\ doc # last.args[1]
    /\ disk = Serialize(last.args[1], IndentWidth)
    /\ disk # Serialize(doc, IndentWidth)

(***************************************************************************)
(* C19.  A setID, setVersion, setAndroidVersionCode or setIOSBundleVersion *)
(* call that completes sets one attribute of root (id, version,            *)
(* android-versionCode, ios-CFBundleVersion respectively) to the given     *)
(* value and changes nothing else: the other attributes of root, the       *)
(* children of root in their order and all their descendants are as they   *)
(* were.                                                                   *)
(***************************************************************************)
C19_RootSetterTouchesOwnAttribute ==
    (last.op \in {"setID", "setVersion", "setAndroidVersionCode", "setIOSBundleVersion"}
        /\ ~last.err) =>
        LET key == CASE last.op = "setID" -> "id"
                     [] last.op = "setVersion" -> "version"
                     [] last.op = "setAndroidVersionCode" -> "android-versionCode"
                     [] OTHER -> "ios-CFBundleVersion"
        IN  /\ DOMAIN doc.attrib = DOMAIN pre.attrib \cup {key}
            /\ doc.attrib[key] = last.args[1]
            /\ \A k \in DOMAIN pre.attrib \ {key} : doc.attrib[k] = pre.attrib[k]
            /\ doc.tag = pre.tag
            /\ doc.text = pre.text
            /\ doc.children = pre.children

\* setID gave a new value to the id of a document that also had a version and
\* children.
C19_Witness ==
    /\ last.op = "setID"
    /\ ~last.err
    /\ "id" \in DOMAIN pre.attrib
    /\ pre.attrib["id"] # last.args[1]
    /\ "version" \in DOMAIN doc.attrib
    /\ pre.children # <<>>

=============================================================================
